---- MODULE Spec2Model ----
(***************************************************************************)
(* Model of osm_fieldwork/make_data_extract.py: the schema driven query    *)
(* construction (createSQL, createJson), the local PostGIS query           *)
(* (queryLocal), the remote snapshot protocol (queryRemote) and the two    *)
(* getFeatures drivers (PostgresClient, OverpassClient).                    *)
(*                                                                         *)
(* Python strings are sequences of one-character strings, so that slices   *)
(* (query[:-4], item[1][16:-1], poly[:-1]), str.find, str.replace and      *)
(* str.split act on characters as they do in the source.                   *)
(***************************************************************************)
EXTENDS Integers, Sequences, FiniteSets, TLC

\* ------------------------------------------------------------------ bounds
\* longest `from` list of a schema
MaxTables == 2
\* the request counters are exact up to here (the loop itself is unbounded)
MaxPolls == 3
\* most distinct vertices of a boundary ring given to the Overpass client
MaxRing == 3

\* ------------------------------------------------------- string literals
\* "SELECT "
kSelect == <<"S", "E", "L", "E", "C", "T", " ">>

\* "osm_id AS id, ST_AsEWKT(ST_Centroid(geom)) "
kIdCentroid == <<"o", "s", "m", "_", "i", "d", " ", "A", "S", " ", "i", "d", ",", " ", "S", "T", "_", "A", "s", "E", "W", "K", "T", "(", "S", "T", "_", "C", "e", "n", "t", "r", "o", "i", "d", "(", "g", "e", "o", "m", ")", ")", " ">>

\* "osm_id AS id, ST_AsEWKT(ST_Centroid(geom)), tags "
kIdCentroidTags == <<"o", "s", "m", "_", "i", "d", " ", "A", "S", " ", "i", "d", ",", " ", "S", "T", "_", "A", "s", "E", "W", "K", "T", "(", "S", "T", "_", "C", "e", "n", "t", "r", "o", "i", "d", "(", "g", "e", "o", "m", ")", ")", ",", " ", "t", "a", "g", "s", " ">>

\* " FROM "
kFrom == <<" ", "F", "R", "O", "M", " ">>

\* " WHERE "
kWhere == <<" ", "W", "H", "E", "R", "E", " ">>

\* " AS "
kAs == <<" ", "A", "S", " ">>

\* "tags->>'"
kTagsArrow == <<"t", "a", "g", "s", "-", ">", ">", "'">>

\* "' IS NOT NULL OR "
kIsNotNullOr == <<"'", " ", "I", "S", " ", "N", "O", "T", " ", "N", "U", "L", "L", " ", "O", "R", " ">>

\* "' IS NOT NULL"
kIsNotNull == <<"'", " ", "I", "S", " ", "N", "O", "T", " ", "N", "U", "L", "L">>

\* " OR "
kOr == <<" ", "O", "R", " ">>

\* " ways_poly "
kWaysPolySp == <<" ", "w", "a", "y", "s", "_", "p", "o", "l", "y", " ">>

\* " nodes "
kNodesSp == <<" ", "n", "o", "d", "e", "s", " ">>

\* "SRID=4326;POINT("
kEwktPrefix == <<"S", "R", "I", "D", "=", "4", "3", "2", "6", ";", "P", "O", "I", "N", "T", "(">>

Str(s) ==
  CASE s = "nodes" -> <<"n", "o", "d", "e", "s">>
    [] s = "ways_poly" -> <<"w", "a", "y", "s", "_", "p", "o", "l", "y">>
    [] s = "ways_line" -> <<"w", "a", "y", "s", "_", "l", "i", "n", "e">>
    [] s = "relations" -> <<"r", "e", "l", "a", "t", "i", "o", "n", "s">>
    [] s = "ways_view" -> <<"w", "a", "y", "s", "_", "v", "i", "e", "w">>
    [] s = "nodes_view" -> <<"n", "o", "d", "e", "s", "_", "v", "i", "e", "w">>
    [] s = "amenity" -> <<"a", "m", "e", "n", "i", "t", "y">>
    [] s = "name" -> <<"n", "a", "m", "e">>
    [] s = "building" -> <<"b", "u", "i", "l", "d", "i", "n", "g">>

\* ------------------------------------------------------ string functions
\* s[:-n]
DropLast(s, n) == IF Len(s) <= n THEN <<>> ELSE SubSeq(s, 1, Len(s) - n)

\* s[a:-1] with a counted from 0
Strip(s, a) == IF Len(s) - 1 <= a THEN <<>> ELSE SubSeq(s, a + 1, Len(s) - 1)

\* pat occurs in s at the 1-based position i
MatchAt(s, pat, i) ==
  /\ i >= 1
  /\ i + Len(pat) - 1 <= Len(s)
  /\ SubSeq(s, i, i + Len(pat) - 1) = pat

\* str.find: 0-based index of the first occurrence, -1 when there is none
Find(s, pat) ==
  LET hits == {i \in 1..(Len(s) + 1) : MatchAt(s, pat, i)}
  IN IF hits = {} THEN -1
     ELSE (CHOOSE i \in hits : \A j \in hits : i <= j) - 1

\* str.endswith
EndsWith(s, pat) == Len(pat) <= Len(s) /\ MatchAt(s, pat, Len(s) - Len(pat) + 1)

RECURSIVE Replace(_, _, _)
\* str.replace: every non-overlapping occurrence of a non-empty old, left
\* to right
Replace(s, old, new) ==
  LET i == Find(s, old)
  IN IF i < 0 THEN s
     ELSE SubSeq(s, 1, i) \o new \o Replace(SubSeq(s, i + Len(old) + 1, Len(s)), old, new)

RECURSIVE Split(_, _)
\* str.split(sep) for a one-character separator
Split(s, sep) ==
  LET i == Find(s, <<sep>>)
  IN IF i < 0 THEN <<s>>
     ELSE <<SubSeq(s, 1, i)>> \o Split(SubSeq(s, i + 2, Len(s)), sep)

Digits == <<"0", "1", "2", "3", "4", "5", "6", "7", "8", "9">>

RECURSIVE NatStr(_)
\* str(n) of a non-negative integer
NatStr(n) == IF n < 10 THEN <<Digits[n + 1]>> ELSE NatStr(n \div 10) \o <<Digits[(n % 10) + 1]>>

\* f"{x}" of a float with an integral value: 3.0 -> "3.0"
FloatStr(n) == NatStr(n) \o <<".", "0">>

DigitVal(c) == CHOOSE d \in 0..9 : Digits[d + 1] = c

RECURSIVE NumVal(_)
\* float(tok) of a token of decimal digits
NumVal(tok) == IF Len(tok) = 1 THEN DigitVal(tok[1])
               ELSE 10 * NumVal(SubSeq(tok, 1, Len(tok) - 1)) + DigitVal(tok[Len(tok)])

\* ----------------------------------------------------- category schemas
\* the table identifiers a schema's `from` list may name
Tables == {"nodes", "ways_poly", "ways_line", "relations"}

TagNames == {"amenity", "name"}

\* predicate strings of where.tags; only "not null" is recognised
Predicates == {"not null", "yes"}

RECURSIVE SeqsUpTo(_, _)
SeqsUpTo(S, n) ==
  IF n = 0 THEN {<<>>}
  ELSE LET shorter == SeqsUpTo(S, n - 1)
       IN shorter \cup {Append(s, x) : s \in {t \in shorter : Len(t) = n - 1}, x \in S}

\* where.tags[0]: a mapping in insertion order, as (tag, predicate) pairs
WhereMaps ==
  {w \in SeqsUpTo(TagNames \X Predicates, Cardinality(TagNames)) :
     \A i, j \in 1..Len(w) : i # j => w[i][1] # w[j][1]}

\* `select` without a tags list, with a tags list whose entries are also
\* keys of the mapping, and with a tags list whose entries are not
SelectPlain == ("osm_id" :> <<"i", "d">>)

SelectAliased == ("tags" :> <<"name">>) @@ ("name" :> Str("name"))

SelectBare == ("tags" :> <<"name">>)

Selects == {SelectPlain, SelectAliased, SelectBare}

\* the documents yaml.load can return for a category
Schemas ==
  [from : SeqsUpTo(Tables, MaxTables), select : Selects,
   hasWhere : {TRUE}, where : WhereMaps]
  \cup
  [from : SeqsUpTo(Tables, MaxTables), select : Selects,
   hasWhere : {FALSE}, where : {<<>>}]

NoSchema == [from |-> <<>>, select |-> SelectPlain, hasWhere |-> FALSE, where |-> <<>>]

\* -------------------------------------------------------------- createSQL
RECURSIVE SelectList(_, _)
\* lines 136-137: f" {select[tag]} AS {tag}, " for each tag of select['tags']
SelectList(select, tags) ==
  IF tags = <<>> THEN <<>>
  ELSE <<" ">> \o select[Head(tags)] \o kAs \o Str(Head(tags)) \o <<",", " ">>
       \o SelectList(select, Tail(tags))

RECURSIVE WhereConds(_)
\* lines 147-149: one "tags->>'<tag>' IS NOT NULL OR " per "not null" entry
WhereConds(w) ==
  IF w = <<>> THEN <<>>
  ELSE (IF Head(w)[2] = "not null"
        THEN kTagsArrow \o Str(Head(w)[1]) \o kIsNotNullOr
        ELSE <<>>)
       \o WhereConds(Tail(w))

\* the body of one iteration of the loop over data['from'] raises KeyError
StatementRaises(data) ==
  \/ /\ "tags" \in DOMAIN data.select
     /\ \E i \in 1..Len(data.select["tags"]) :
          data.select["tags"][i] \notin DOMAIN data.select
  \/ ~data.hasWhere

\* lines 132-150: the statement appended for one table
Statement(data, table) ==
  LET cols == IF "tags" \in DOMAIN data.select
              THEN SelectList(data.select, data.select["tags"]) \o kIdCentroid
              ELSE kIdCentroidTags
      head == kSelect \o cols \o kFrom \o Str(table) \o <<" ">>
      full == IF data.hasWhere THEN head \o kWhere \o WhereConds(data.where)
              ELSE head
  IN DropLast(full, 4)

\* lines 131, 150: one statement for every entry of data['from']
EmittedTables(data) == data.from

\* createSQL(category), given the loaded document
CreateSQL(data) ==
  IF EmittedTables(data) # <<>> /\ StatementRaises(data)
  THEN [err |-> "KeyError", sql |-> <<>>]
  ELSE [err |-> "none",
        sql |-> [i \in 1..Len(EmittedTables(data)) |-> Statement(data, EmittedTables(data)[i])]]

\* ------------------------------------------------------------- createJson
RECURSIVE NotNullTags(_)
\* lines 104-106: the "not null" tags of where.tags[0], in order
NotNullTags(w) ==
  IF w = <<>> THEN <<>>
  ELSE (IF Head(w)[2] = "not null" THEN <<Head(w)[1]>> ELSE <<>>) \o NotNullTags(Tail(w))

RECURSIVE GeometryTypes(_)
\* lines 110-118: nodes, ways_poly, ways_line translated, relations dropped
GeometryTypes(from) ==
  IF from = <<>> THEN <<>>
  ELSE (CASE Head(from) = "nodes" -> <<"point">>
          [] Head(from) = "ways_poly" -> <<"polygon">>
          [] Head(from) = "ways_line" -> <<"linestring">>
          [] OTHER -> <<>>)
       \o GeometryTypes(Tail(from))

\* createJson(category, boundary), given the loaded document
CreateJson(data, boundary) ==
  IF ~data.hasWhere
  THEN [err |-> "KeyError", doc |-> <<>>]
  ELSE [err |-> "none",
        doc |-> <<[geometry |-> boundary, join_or |-> NotNullTags(data.where),
                   geometryType |-> GeometryTypes(data.from), centroid |-> "true"]>>]

\* ------------------------------------------------ Overpass query text
\* [out:json];way["building"](poly:"
kOverpassHead == <<"[", "o", "u", "t", ":", "j", "s", "o", "n", "]", ";", "w", "a", "y", "[", "\"", "b", "u", "i", "l", "d", "i", "n", "g", "\"", "]", "(", "p", "o", "l", "y", ":", "\"">>

\* ");(._;>;);out body geom;
kOverpassTail == <<"\"", ")", ";", "(", ".", "_", ";", ">", ";", ")", ";", "o", "u", "t", " ", "b", "o", "d", "y", " ", "g", "e", "o", "m", ";">>


\* ------------------------------------------------------- boundary polygons
\* longitudes (x) and latitudes (y) of boundary corners; the two sets are
\* disjoint so that a longitude is never mistaken for a latitude
Lons == {0, 4, 8}

Lats == {1, 5}

\* exterior ring of an axis-aligned rectangle, closed, as (lon, lat) vertices
Rect(x1, y1, x2, y2) == << <<x1, y1>>, <<x2, y1>>, <<x2, y2>>, <<x1, y2>>, <<x1, y1>> >>

\* the polygons a boundary file may hold
Boundaries ==
  {Rect(c[1], c[2], c[3], c[4]) :
     c \in {d \in Lons \X Lats \X Lons \X Lats : d[1] < d[3] /\ d[2] < d[4]}}

\* the documents geojson.load can return for a boundary file holding one
\* of the polygons of P: a Feature, a FeatureCollection, or something with
\* neither key
BoundaryDocs(P) ==
  {[kind |-> "Feature", polys |-> <<p>>] : p \in P}
  \cup {[kind |-> "FeatureCollection", polys |-> <<p>>] : p \in P}
  \cup {[kind |-> "FeatureCollection", polys |-> <<>>], [kind |-> "Other", polys |-> <<>>]}

\* lines 220-223 and 264-267: the geometry taken from the loaded document
BoundaryGeometry(geom) ==
  IF geom.kind = "FeatureCollection"
  THEN IF geom.polys = <<>> THEN [err |-> "IndexError", poly |-> <<>>]
       ELSE [err |-> "none", poly |-> geom.polys[1]]
  ELSE IF geom.kind = "Feature" THEN [err |-> "none", poly |-> geom.polys[1]]
       ELSE [err |-> "KeyError", poly |-> <<>>]

\* ST_CONTAINS(boundary, point) for a rectangle boundary: strictly inside
Contains(ring, pt) ==
  /\ \E i \in 1..Len(ring) : ring[i][1] < pt[1]
  /\ \E i \in 1..Len(ring) : ring[i][1] > pt[1]
  /\ \E i \in 1..Len(ring) : ring[i][2] < pt[2]
  /\ \E i \in 1..Len(ring) : ring[i][2] > pt[2]

\* --------------------------------------------------------- Python values
PyInt(n) == [kind |-> "int", val |-> n]

PyStr(s) == [kind |-> "str", val |-> s]

PyNone == [kind |-> "None", val |-> <<>>]

\* ------------------------------------------------------------ the database
\* rows of the database: table, osm_id, geometry (a point) and tags
DbRows ==
  << [table |-> "nodes", osm_id |-> 11, geom |-> <<2, 3>>,
      tags |-> ("amenity" :> PyStr(<<"p", "u", "b">>) @@ "name" :> PyStr(<<"I", "n", "n">>))],
     [table |-> "nodes", osm_id |-> 12, geom |-> <<6, 7>>,
      tags |-> ("amenity" :> PyStr(<<"b", "a", "r">>))],
     [table |-> "ways_poly", osm_id |-> 21, geom |-> <<2, 7>>,
      tags |-> ("name" :> PyStr(<<"H", "a", "l", "l">>))],
     [table |-> "ways_poly", osm_id |-> 22, geom |-> <<6, 3>>,
      tags |-> ("amenity" :> PyStr(<<"b", "a", "n", "k">>))],
     [table |-> "ways_line", osm_id |-> 31, geom |-> <<2, 3>>,
      tags |-> ("name" :> PyStr(<<"A", "1">>))],
     [table |-> "ways_line", osm_id |-> 32, geom |-> <<6, 7>>,
      tags |-> ("amenity" :> PyStr(<<"f", "u", "e", "l">>) @@ "name" :> PyStr(<<"B", "2">>))],
     [table |-> "relations", osm_id |-> 41, geom |-> <<6, 3>>,
      tags |-> ("amenity" :> PyStr(<<"z", "o", "o">>))] >>

\* the tables a database may hold: with or without a relations table
TableSets == {{"nodes", "ways_poly", "ways_line"}, {"nodes", "ways_poly", "ways_line", "relations"}}

\* ST_AsEWKT(ST_Centroid(geom)) of a point geometry with SRID 4326
AsEWKT(pt) == kEwktPrefix \o NatStr(pt[1]) \o <<" ">> \o NatStr(pt[2]) \o <<")">>

\* the name after " FROM " in a statement, up to the next space
RelationOf(q) ==
  LET i == Find(q, kFrom)
      rest == SubSeq(q, i + Len(kFrom) + 1, Len(q))
  IN IF i < 0 THEN <<>> ELSE Split(rest, " ")[1]

\* the tags a statement's WHERE clause requires to be present
RequiredTags(q) == {t \in TagNames : Find(q, kTagsArrow \o Str(t) \o kIsNotNull) >= 0}

\* a row satisfies the statement's WHERE clause; without the keyword the
\* statement has none (a trailing "WH" is a table alias)
PassesWhere(q, row) ==
  Find(q, kWhere) < 0 \/ \E t \in RequiredTags(q) : t \in DOMAIN row.tags

\* the rows of a table or view; a view holds the rows of its table that lie
\* within the polygon it was created with
RelationRows(rel, tables, views) ==
  LET RowsOf(t) == SelectSeq(DbRows, LAMBDA r : r.table = t)
  IN IF \E t \in tables : Str(t) = rel
     THEN RowsOf(CHOOSE t \in tables : Str(t) = rel)
     ELSE IF rel = Str("ways_view") /\ views.ways_view # <<>>
     THEN SelectSeq(RowsOf("ways_poly"), LAMBDA r : Contains(views.ways_view, r.geom))
     ELSE IF rel = Str("nodes_view") /\ views.nodes_view # <<>>
     THEN SelectSeq(RowsOf("nodes"), LAMBDA r : Contains(views.nodes_view, r.geom))
     ELSE <<>>

RelationExists(rel, tables, views) ==
  \/ \E t \in tables : Str(t) = rel
  \/ rel = Str("ways_view") /\ views.ways_view # <<>>
  \/ rel = Str("nodes_view") /\ views.nodes_view # <<>>

\* the statement selects osm_id, centroid and tags, in this order
PlainColumns(q) == MatchAt(q, kSelect \o kIdCentroidTags, 1)

\* cursor.execute(query); cursor.fetchall(): the result tuples, or an error
Execute(q, tables, views) ==
  LET rel == RelationOf(q)
      hit == SelectSeq(RelationRows(rel, tables, views), LAMBDA r : PassesWhere(q, r))
  IN IF ~RelationExists(rel, tables, views)
     THEN [err |-> "UndefinedTable", rows |-> <<>>]
     ELSE [err |-> "none",
           rows |-> [i \in 1..Len(hit) |->
                      IF PlainColumns(q)
                      THEN <<PyInt(hit[i].osm_id), PyStr(AsEWKT(hit[i].geom)), hit[i].tags>>
                      ELSE <<PyNone, PyInt(hit[i].osm_id), PyStr(AsEWKT(hit[i].geom))>>]]

\* ------------------------------------------------------------- queryLocal
\* lines 154-157: both views are dropped and created again for this boundary
CreateViews(wkt) == [ways_view |-> wkt, nodes_view |-> wkt]

NoViews == [ways_view |-> <<>>, nodes_view |-> <<>>]

\* lines 162-165: the statement is pointed at a view
RewriteQuery(q) ==
  IF Find(q, kWaysPolySp) > 0 THEN Replace(q, Str("ways_poly"), Str("ways_view"))
  ELSE IF Find(q, kNodesSp) > 0 THEN Replace(q, Str("nodes"), Str("nodes_view"))
  ELSE q

\* line 175: the value stored under properties.id
FeatureId(item) == item[2]

\* lines 172-173: the Point parsed out of "SRID=4326;POINT(<x> <y>)"
FeaturePoint(item) ==
  LET gps == Split(Strip(item[2].val, 16), " ")
  IN <<NumVal(gps[1]), NumVal(gps[2])>>

\* lines 172-182: the feature built from one result tuple
FeatureOf(item) ==
  LET tags == item[3]
      named == IF "name" \in DOMAIN tags
               THEN ("title" :> tags["name"]) @@ ("label" :> tags["name"])
               ELSE ("title" :> PyNone) @@ ("label" :> PyNone)
  IN [geometry |-> FeaturePoint(item), properties |-> named @@ ("id" :> FeatureId(item)) @@ tags]

\* a result tuple on which lines 172-175 raise: item[1] is not a string
\* (not subscriptable) or item[2] does not support item assignment
ItemRaises(item) == item[2].kind # "str" \/ item[3] \in {PyNone} \cup {PyStr(item[2].val)}

\* ------------------------------------------------------------ queryRemote
Urls == {"u1", "u2", "u3"}

\* the zip archive the server holds at each download URL: entry -> bytes
Archive(url) ==
  CASE url = "u1" -> ("Export.geojson" :> "bytesA") @@ ("readme.txt" :> "bytesR")
    [] url = "u2" -> ("Export.geojson" :> "bytesB")
    [] OTHER -> ("other.geojson" :> "bytesC")

\* the JSON bodies GET /tasks/status/<task_id> can answer with; FAILURE
\* stands for every status that is neither PENDING nor SUCCESS
StatusResponses ==
  {[status |-> "PENDING", download_url |-> "none"], [status |-> "FAILURE", download_url |-> "none"]}
  \cup {[status |-> "SUCCESS", download_url |-> u] : u \in Urls}

\* lines 192-196: what the loop does with a status
StatusBranch(status) ==
  IF status = "PENDING" THEN "sleep"
  ELSE IF status = "SUCCESS" THEN "break"
  ELSE "spin"

\* line 197: the URL that is downloaded
DownloadUrl(resp) == resp.download_url

\* the archive's other entry is read instead
ExportEntry_Other == "readme.txt"

\* lines 201, 203: the archive entry that is extracted and returned
ExportEntry == "Export.geojson"

\* a counter of requests; it is exact up to MaxPolls, and MaxPolls + 1
\* stands for every larger number
Count(n) == IF n <= MaxPolls THEN n + 1 ELSE n

\* -------------------------------------------------------------- Overpass
\* the x value is written before the y value
VertexText_XFirst(v) == FloatStr(v[1]) \o <<" ">> \o FloatStr(v[2]) \o <<" ">>

\* lines 270-274: one vertex of the ring as text; coords.xy returns the x
\* values then the y values, which the code binds to `lat` and `lon`
VertexText(v) ==
  LET lat == v[1]
      lon == v[2]
  IN FloatStr(lon) \o <<" ">> \o FloatStr(lat) \o <<" ">>

RECURSIVE RingText(_)
\* lines 269-274: poly after the loop over the ring
RingText(ring) == IF ring = <<>> THEN <<>> ELSE VertexText(Head(ring)) \o RingText(Tail(ring))

\* line 276: the Overpass QL query
OverpassQuery(ring) == kOverpassHead \o DropLast(RingText(ring), 1) \o kOverpassTail

\* the ways an Overpass server may answer with
OverpassWays ==
  << [geometry |-> << [lat |-> 1, lon |-> 0], [lat |-> 1, lon |-> 4],
                      [lat |-> 5, lon |-> 4], [lat |-> 5, lon |-> 0] >>,
      tags |-> ("building" :> PyStr(<<"y", "e", "s">>))] >>

OverpassAnswers == {<<>>, OverpassWays}

\* lines 280-288: the centroid feature of one way (rectangular ways only)
WayFeature(way) ==
  LET poly == [i \in 1..Len(way.geometry) |-> <<way.geometry[i].lon, way.geometry[i].lat>>]
      xs == {poly[i][1] : i \in 1..Len(poly)}
      ys == {poly[i][2] : i \in 1..Len(poly)}
      Lo(S) == CHOOSE a \in S : \A b \in S : a <= b
      Hi(S) == CHOOSE a \in S : \A b \in S : a >= b
  IN [geometry |-> <<(Lo(xs) + Hi(xs)) \div 2, (Lo(ys) + Hi(ys)) \div 2>>, properties |-> way.tags]

\* ------------------------------------------------------------------ files
TmpExport == "/tmp/Export.geojson"

\* the paths a caller may pass as filespec
Paths == {"out.geojson", TmpExport}

NoFile == <<"absent">>

OldFile == <<"old">>

\* ------------------------------------------------------------------ state
VARIABLES
  pc,          \* position of the run
  client,      \* "postgres" or "overpass"
  dbshell,     \* self.dbshell is an open connection
  session,     \* self.session, self.url and self.headers exist
  data,        \* the document of the category's schema file
  boundary,    \* the document of the boundary file (or the boundary dict)
  dbTables,    \* the tables of the connected database
  views,       \* the temporary views of the database session
  fs0,         \* the files before the run
  fs,          \* the files
  filespec,    \* the filespec argument of getFeatures
  poly,        \* the boundary polygon (exterior ring)
  sql,         \* the list returned by createSQL
  qi,          \* index of the next statement of the loop over sql
  rows,        \* the tuples fetched by the last queryLocal
  result,      \* the features returned by the last queryLocal
  returned,    \* every feature returned by a queryLocal of this run
  request,     \* the filter document posted to /snapshot/
  posts,       \* number of POSTs to /snapshot/
  statusGets,  \* number of GETs of /tasks/status/<task_id>
  pendingSeen, \* number of PENDING answers
  otherSeen,   \* number of answers that are neither PENDING nor SUCCESS
  lastResp,    \* the last answer of the status endpoint
  downloads,   \* the URLs downloaded, in order
  collection,  \* the collection handed to the tag cleaner
  opQuery,     \* the query sent to Overpass
  new,         \* the cleaned collection
  err          \* the exception that ended the run, or "none"

vars == <<pc, client, dbshell, session, data, boundary, dbTables, views, fs0, fs, filespec, poly, sql, qi,
          rows, result, returned, request, posts, statusGets, pendingSeen, otherSeen,
          lastResp, downloads, collection, opQuery, new, err>>

dbVars == <<views, sql, qi, rows, result, returned>>

httpVars == <<request, posts, statusGets, pendingSeen, otherSeen, lastResp, downloads>>

objVars == <<client, dbshell, session, data, boundary, dbTables, fs0>>

NoResp == [status |-> "none", download_url |-> "none"]

\* the state before a client is constructed, for a schema file among S, a
\* boundary file among B, and output files that all exist or all do not
Start(S, B) ==
  /\ pc = "new"
  /\ client = "none"
  /\ dbshell = FALSE
  /\ session = FALSE
  /\ data \in S
  /\ boundary \in B
  /\ dbTables = {}
  /\ views = NoViews
  /\ fs0 \in {[p \in Paths |-> NoFile], [p \in Paths |-> OldFile]}
  /\ fs = fs0
  /\ filespec = "none"
  /\ poly = <<>>
  /\ sql = <<>>
  /\ qi = 1
  /\ rows = <<>>
  /\ result = <<>>
  /\ returned = <<>>
  /\ request = <<>>
  /\ posts = 0
  /\ statusGets = 0
  /\ pendingSeen = 0
  /\ otherSeen = 0
  /\ lastResp = NoResp
  /\ downloads = <<>>
  /\ collection = <<>>
  /\ opQuery = <<>>
  /\ new = <<>>
  /\ err = "none"

\* the schemas of the end-to-end runs: every `from` list with one required
\* tag, and one schema for each other shape of `select` and `where`
MainSchemas ==
  {d \in Schemas : /\ d.select = SelectPlain
                   /\ d.hasWhere
                   /\ d.where = << <<"amenity", "not null">> >>}
  \cup {[from |-> <<"nodes", "ways_poly">>, select |-> SelectAliased, hasWhere |-> TRUE,
         where |-> << <<"amenity", "not null">>, <<"name", "not null">> >>],
        [from |-> <<"nodes">>, select |-> SelectPlain, hasWhere |-> TRUE,
         where |-> << <<"amenity", "yes">> >>],
        [from |-> <<"ways_poly">>, select |-> SelectPlain, hasWhere |-> FALSE, where |-> <<>>]}

Init == Start(MainSchemas, BoundaryDocs(Boundaries))

\* the run ends with an exception
Raise(e) == pc' = "failed" /\ err' = e

\* --------------------------------------------------------------- actions
\* DatabaseAccess.__init__ (via PostgresClient.__init__), lines 64-90.
\* dbname is "underpass", the name of a database, or None; connected tells
\* whether psycopg2.connect succeeds
PostgresInit(dbname, connected, tables) ==
  /\ pc = "new"
  /\ client' = "postgres"
  /\ dbTables' = IF dbname \notin {"underpass", "None"} /\ connected THEN tables ELSE dbTables
  /\ IF dbname = "underpass"
     THEN /\ dbshell' = FALSE
          /\ session' = TRUE
          /\ pc' = "ready"
          /\ err' = "none"
     ELSE IF dbname = "None"
     THEN /\ dbshell' = FALSE
          /\ session' = FALSE
          /\ pc' = "crashed"
          /\ err' = "TypeError"
     ELSE /\ dbshell' = connected
          /\ session' = FALSE
          /\ pc' = "ready"
          /\ err' = "none"
  /\ UNCHANGED <<data, boundary, fs0, fs, filespec, poly, collection, opQuery, new>>
  /\ UNCHANGED dbVars
  /\ UNCHANGED httpVars

\* OverpassClient.__init__, lines 253-256
OverpassInit ==
  /\ pc = "new"
  /\ client' = "overpass"
  /\ pc' = "ready"
  /\ UNCHANGED <<dbshell, session, data, boundary, dbTables, fs0, fs, filespec, poly, collection, opQuery, new, err>>
  /\ UNCHANGED dbVars
  /\ UNCHANGED httpVars

\* getFeatures is called: lines 217-226 (a dict or a file for the Postgres
\* client) and lines 262-268 (always a file for the Overpass client). A
\* dict is taken as the geometry itself (line 225), whatever its kind, and
\* shape() raises on one that holds no polygon
LoadBoundary(isDict, path) ==
  /\ pc = "ready"
  /\ filespec' = path
  /\ IF isDict /\ client = "postgres"
     THEN IF boundary.polys = <<>>
          THEN Raise("GeometryError") /\ poly' = poly
          ELSE poly' = boundary.polys[1] /\ pc' = "loaded" /\ err' = err
     ELSE LET g == BoundaryGeometry(boundary)
          IN IF g.err # "none"
             THEN Raise(g.err) /\ poly' = poly
             ELSE poly' = g.poly /\ pc' = "loaded" /\ err' = err
  /\ UNCHANGED <<fs, collection, opQuery, new>>
  /\ UNCHANGED objVars
  /\ UNCHANGED dbVars
  /\ UNCHANGED httpVars

\* the boundary file cannot be opened or parsed: open or geojson.load raises
LoadBoundaryFails(path) ==
  /\ pc = "ready"
  /\ filespec' = path
  /\ Raise("IOError")
  /\ UNCHANGED <<fs, poly, collection, opQuery, new>>
  /\ UNCHANGED objVars
  /\ UNCHANGED dbVars
  /\ UNCHANGED httpVars

\* PostgresClient.getFeatures line 230: sql = self.createSQL(category)
LocalCreateSQL ==
  /\ pc = "loaded"
  /\ client = "postgres"
  /\ dbshell
  /\ LET r == CreateSQL(data)
     IN IF r.err # "none"
        THEN Raise(r.err) /\ UNCHANGED <<sql, qi>>
        ELSE sql' = r.sql /\ qi' = 1 /\ pc' = "local" /\ err' = err
  /\ UNCHANGED <<views, rows, result, returned, fs, filespec, poly, collection, opQuery, new>>
  /\ UNCHANGED objVars
  /\ UNCHANGED httpVars

\* one iteration of the loop of lines 231-232: result = self.queryLocal(query, wkt)
QueryLocal ==
  /\ pc = "local"
  /\ qi <= Len(sql)
  /\ views' = CreateViews(poly)
  /\ LET ex == Execute(RewriteQuery(sql[qi]), dbTables, views')
     IN IF ex.err # "none"
        THEN Raise(ex.err) /\ UNCHANGED <<rows, result, returned, qi>>
        ELSE IF \E i \in 1..Len(ex.rows) : ItemRaises(ex.rows[i])
        THEN Raise("TypeError") /\ rows' = ex.rows /\ UNCHANGED <<result, returned, qi>>
        ELSE /\ rows' = ex.rows
             /\ result' = [i \in 1..Len(ex.rows) |-> FeatureOf(ex.rows[i])]
             /\ returned' = returned \o result'
             /\ qi' = qi + 1
             /\ UNCHANGED <<pc, err>>
  /\ UNCHANGED <<sql, fs, filespec, poly, collection, opQuery, new>>
  /\ UNCHANGED objVars
  /\ UNCHANGED httpVars

\* line 233, after the loop: the features handed on as the collection
Collected == result

\* line 233: collection = FeatureCollection(result); result is unbound when
\* the loop ran no iteration
LocalCollect ==
  /\ pc = "local"
  /\ qi > Len(sql)
  /\ IF sql = <<>>
     THEN Raise("NameError") /\ UNCHANGED collection
     ELSE collection' = Collected /\ pc' = "clean" /\ err' = err
  /\ UNCHANGED <<fs, filespec, poly, opQuery, new>>
  /\ UNCHANGED objVars
  /\ UNCHANGED dbVars
  /\ UNCHANGED httpVars

\* line 235: request = self.createJson(category, poly)
RemoteCreateJson ==
  /\ pc = "loaded"
  /\ client = "postgres"
  /\ ~dbshell
  /\ LET r == CreateJson(data, poly)
     IN IF r.err # "none"
        THEN Raise(r.err) /\ UNCHANGED request
        ELSE request' = r.doc /\ pc' = "post" /\ err' = err
  /\ UNCHANGED <<posts, statusGets, pendingSeen, otherSeen, lastResp, downloads>>
  /\ UNCHANGED <<fs, filespec, poly, collection, opQuery, new>>
  /\ UNCHANGED objVars
  /\ UNCHANGED dbVars

\* queryRemote lines 186-189: the POST to /snapshot/; self.url does not
\* exist unless the constructor took the "underpass" branch. A request
\* that is not accepted (no connection, no task_id in the answer) raises
RemotePost(accepted) ==
  /\ pc = "post"
  /\ IF ~session
     THEN Raise("AttributeError") /\ UNCHANGED posts
     ELSE /\ posts' = posts + 1
          /\ IF accepted THEN pc' = "poll" /\ err' = err ELSE Raise("RequestError")
  /\ UNCHANGED <<request, statusGets, pendingSeen, otherSeen, lastResp, downloads>>
  /\ UNCHANGED <<fs, filespec, poly, collection, opQuery, new>>
  /\ UNCHANGED objVars
  /\ UNCHANGED dbVars

\* one iteration of the loop of lines 190-196, and line 197 on leaving it
RemotePoll(resp) ==
  /\ pc = "poll"
  /\ statusGets' = Count(statusGets)
  /\ lastResp' = resp
  /\ pendingSeen' = IF resp.status = "PENDING" THEN Count(pendingSeen) ELSE pendingSeen
  /\ otherSeen' = IF resp.status \notin {"PENDING", "SUCCESS"} THEN Count(otherSeen) ELSE otherSeen
  /\ pc' = IF StatusBranch(resp.status) = "break" THEN "download" ELSE "poll"
  /\ UNCHANGED <<request, posts, downloads, err>>
  /\ UNCHANGED <<fs, filespec, poly, collection, opQuery, new>>
  /\ UNCHANGED objVars
  /\ UNCHANGED dbVars

\* the status GET itself fails: requests raises out of the loop
RemotePollFails ==
  /\ pc = "poll"
  /\ statusGets' = Count(statusGets)
  /\ Raise("RequestError")
  /\ UNCHANGED <<request, posts, pendingSeen, otherSeen, lastResp, downloads>>
  /\ UNCHANGED <<fs, filespec, poly, collection, opQuery, new>>
  /\ UNCHANGED objVars
  /\ UNCHANGED dbVars

\* lines 197-203: download the archive, extract Export.geojson to /tmp/ and
\* return the bytes of the entry
RemoteDownload ==
  /\ pc = "download"
  /\ downloads' = Append(downloads, DownloadUrl(lastResp))
  /\ LET zfp == Archive(DownloadUrl(lastResp))
     IN IF ExportEntry \notin DOMAIN zfp
        THEN Raise("KeyError") /\ UNCHANGED <<fs, collection>>
        ELSE /\ fs' = [fs EXCEPT ![TmpExport] = <<"raw", zfp[ExportEntry]>>]
             /\ collection' = zfp[ExportEntry]
             /\ pc' = "clean"
             /\ err' = err
  /\ UNCHANGED <<request, posts, statusGets, pendingSeen, otherSeen, lastResp>>
  /\ UNCHANGED <<filespec, poly, opQuery, new>>
  /\ UNCHANGED objVars
  /\ UNCHANGED dbVars

\* OverpassClient.getFeatures lines 268-276: the query is built
OverpassBuild ==
  /\ pc = "loaded"
  /\ client = "overpass"
  /\ opQuery' = OverpassQuery(poly)
  /\ pc' = "overpass"
  /\ UNCHANGED <<fs, filespec, poly, collection, new, err>>
  /\ UNCHANGED objVars
  /\ UNCHANGED dbVars
  /\ UNCHANGED httpVars

\* lines 277-290: the query is run and the ways become centroid features
OverpassRun(answered, ways) ==
  /\ pc = "overpass"
  /\ IF answered
     THEN /\ collection' = [i \in 1..Len(ways) |-> WayFeature(ways[i])]
          /\ pc' = "clean"
          /\ err' = err
     ELSE Raise("OverpassError") /\ UNCHANGED collection
  /\ UNCHANGED <<fs, filespec, poly, opQuery, new>>
  /\ UNCHANGED objVars
  /\ UNCHANGED dbVars
  /\ UNCHANGED httpVars

\* lines 238-246 and 292-298: FilterData parses the XLSForm and cleans the
\* collection; either call may raise
Clean(cleaned) ==
  /\ pc = "clean"
  /\ IF cleaned
     THEN new' = <<"cleaned", collection>> /\ pc' = "write" /\ err' = err
     ELSE Raise("FilterError") /\ UNCHANGED new
  /\ UNCHANGED <<fs, filespec, poly, collection, opQuery>>
  /\ UNCHANGED objVars
  /\ UNCHANGED dbVars
  /\ UNCHANGED httpVars

\* lines 247-249 and 299-301: the cleaned collection is dumped to filespec
Write ==
  /\ pc = "write"
  /\ fs' = [fs EXCEPT ![filespec] = <<"dump", new>>]
  /\ pc' = "done"
  /\ UNCHANGED <<filespec, poly, collection, opQuery, new, err>>
  /\ UNCHANGED objVars
  /\ UNCHANGED dbVars
  /\ UNCHANGED httpVars

Next ==
  \/ \E dbname \in {"underpass", "osm", "None"}, connected \in BOOLEAN, tables \in TableSets :
       PostgresInit(dbname, connected, tables)
  \/ OverpassInit
  \/ \E isDict \in BOOLEAN, path \in Paths : LoadBoundary(isDict, path)
  \/ \E path \in Paths : LoadBoundaryFails(path)
  \/ LocalCreateSQL
  \/ QueryLocal
  \/ LocalCollect
  \/ RemoteCreateJson
  \/ \E accepted \in BOOLEAN : RemotePost(accepted)
  \/ \E resp \in StatusResponses : RemotePoll(resp)
  \/ RemotePollFails
  \/ RemoteDownload
  \/ OverpassBuild
  \/ \E answered \in BOOLEAN, ways \in OverpassAnswers : OverpassRun(answered, ways)
  \/ \E cleaned \in BOOLEAN : Clean(cleaned)
  \/ Write

Spec == Init /\ [][Next]_vars

\* ---------------------------------------------- queryRemote on its own
\* the states in which queryRemote is entered (line 236): the client has no
\* database session and createJson has returned the request
InitRemote ==
  /\ pc = "post"
  /\ client = "postgres"
  /\ dbshell = FALSE
  /\ session \in BOOLEAN
  /\ data \in {d \in MainSchemas : d.hasWhere /\ Len(d.from) = 1}
  /\ boundary \in {b \in BoundaryDocs(Boundaries) : b.kind = "Feature"}
  /\ dbTables = {}
  /\ views = NoViews
  /\ fs0 \in {[p \in Paths |-> NoFile], [p \in Paths |-> OldFile]}
  /\ fs = fs0
  /\ filespec \in Paths
  /\ poly = boundary.polys[1]
  /\ sql = <<>>
  /\ qi = 1
  /\ rows = <<>>
  /\ result = <<>>
  /\ returned = <<>>
  /\ request = CreateJson(data, poly).doc
  /\ posts = 0
  /\ statusGets = 0
  /\ pendingSeen = 0
  /\ otherSeen = 0
  /\ lastResp = NoResp
  /\ downloads = <<>>
  /\ collection = <<>>
  /\ opQuery = <<>>
  /\ new = <<>>
  /\ err = "none"

NextRemote ==
  \/ \E accepted \in BOOLEAN : RemotePost(accepted)
  \/ \E resp \in StatusResponses : RemotePoll(resp)
  \/ RemotePollFails
  \/ RemoteDownload

SpecRemote == InitRemote /\ [][NextRemote]_vars

\* the program is single threaded and blocking: while queryRemote can take a
\* step it takes one (the poll loop has no exit other than its break)
FairRemote == InitRemote /\ [][NextRemote]_vars /\ WF_vars(NextRemote)

\* ------------------------------------------- the Overpass client on its own
\* closed rings of up to MaxRing distinct vertices, and the empty ring
Rings ==
  {<<>>} \cup
  {Append(r, r[1]) : r \in {q \in SeqsUpTo(Lons \X Lats, MaxRing) :
                               /\ Len(q) >= 3
                               /\ \A i, j \in 1..Len(q) : i # j => q[i] # q[j]}}

InitOverpass == Start({NoSchema}, BoundaryDocs(Rings))

NextOverpass ==
  \/ OverpassInit
  \/ \E isDict \in BOOLEAN, path \in Paths : LoadBoundary(isDict, path)
  \/ \E path \in Paths : LoadBoundaryFails(path)
  \/ OverpassBuild
  \/ \E answered \in BOOLEAN, ways \in OverpassAnswers : OverpassRun(answered, ways)
  \/ \E cleaned \in BOOLEAN : Clean(cleaned)
  \/ Write

SpecOverpass == InitOverpass /\ [][NextOverpass]_vars

\* ================================================================ claims
\* the "not null" conditions joined with " OR "
RECURSIVE OrJoin(_)
OrJoin(tags) ==
  IF tags = <<>> THEN <<>>
  ELSE kTagsArrow \o Str(Head(tags)) \o kIsNotNull
       \o (IF Tail(tags) = <<>> THEN <<>> ELSE kOr \o OrJoin(Tail(tags)))

RECURSIVE TrimRight(_)
TrimRight(s) == IF s # <<>> /\ s[Len(s)] = " " THEN TrimRight(SubSeq(s, 1, Len(s) - 1)) ELSE s

\* the tokens of a ring in the order (first, second) of each vertex, joined
\* with single spaces
RECURSIVE JoinVertices(_, _, _)
JoinVertices(ring, first, second) ==
  IF ring = <<>> THEN <<>>
  ELSE FloatStr(Head(ring)[first]) \o <<" ">> \o FloatStr(Head(ring)[second])
       \o (IF Tail(ring) = <<>> THEN <<>> ELSE <<" ">> \o JoinVertices(Tail(ring), first, second))

\* queryRemote has returned on a run in which every status answer was
\* PENDING or SUCCESS and the counters are exact
RemoteReturned ==
  /\ pc = "clean"
  /\ client = "postgres"
  /\ ~dbshell
  /\ otherSeen = 0
  /\ statusGets <= MaxPolls

\* C1: when the status endpoint answers PENDING n times and then SUCCESS,
\* queryRemote has issued one POST, n + 1 status GETs and one download, of
\* the download_url of the SUCCESS answer, and returns the bytes of the
\* archive's Export.geojson entry; no download is issued before a SUCCESS
\* answer has been seen.
C1_SubmitPollFetch ==
  /\ downloads # <<>> => lastResp.status = "SUCCESS"
  /\ statusGets > 0 => posts = 1
  /\ pc = "download" => lastResp.status = "SUCCESS" /\ downloads = <<>>
  /\ RemoteReturned =>
       /\ posts = 1
       /\ statusGets = pendingSeen + 1
       /\ downloads = <<lastResp.download_url>>
       /\ "Export.geojson" \in DOMAIN Archive(lastResp.download_url)
       /\ collection = Archive(lastResp.download_url)["Export.geojson"]

\* PENDING twice, then SUCCESS: three polls and the bytes of the archive at u1
C1_Witness ==
  /\ RemoteReturned
  /\ pendingSeen = 2
  /\ statusGets = 3
  /\ lastResp.download_url = "u1"
  /\ collection = "bytesA"

\* C2: the poll loop of queryRemote is always left, whatever the status
\* endpoint answers.
C2_PollLoopTerminates == (pc = "poll") ~> (pc # "poll")

\* C3: a PostgresClient without a database session has the HTTP session,
\* base URL and headers that the remote path uses, so the fallback to
\* queryRemote never fails on a missing attribute.
C3_RemoteFallbackCanRun ==
  /\ (client = "postgres" /\ pc \in {"ready", "loaded", "post"} /\ ~dbshell) => session
  /\ err # "AttributeError"

\* C4: until boundary loading, query construction, query execution and tag
\* cleaning have all succeeded, the file at filespec is as it was before
\* the run; a failed extraction leaves it untouched.
C4_NoOutputOnFailure ==
  (filespec \in Paths /\ pc # "done") => fs[filespec] = fs0[filespec]

\* C5: createSQL returns one statement per entry of `from` that is not
\* "relations", in list order, and none for "relations".
C5_OneStatementPerTable ==
  pc = "local" =>
    LET wanted == SelectSeq(data.from, LAMBDA t : t # "relations")
    IN /\ Len(sql) = Len(wanted)
       /\ \A i \in 1..Len(sql) : RelationOf(sql[i]) = Str(wanted[i])

\* C6: every statement of createSQL ends with " WHERE " and the OR-join of
\* the "not null" conditions when there is such a tag, and otherwise has no
\* WHERE clause and ends with its FROM clause and table name.
C6_WellFormedWhere ==
  pc = "local" =>
    \A i \in 1..Len(sql) :
      LET nn == NotNullTags(data.where)
      IN IF nn # <<>>
         THEN EndsWith(sql[i], kWhere \o OrJoin(nn))
         ELSE EndsWith(TrimRight(sql[i]), kFrom \o Str(data.from[i]))

\* C7: for a schema over nodes, ways_poly and ways_line, every feature
\* returned by queryLocal lies within the boundary polygon.
C7_OnlyFeaturesInsideBoundary ==
  (\A i \in 1..Len(data.from) : data.from[i] # "relations") =>
    \A i \in 1..Len(returned) : Contains(poly, returned[i].geometry)

\* C9: on the local path the collection handed to the tag cleaner holds the
\* features returned by queryLocal for every statement of createSQL.
C9_AllStatementsCollected ==
  (pc = "clean" /\ client = "postgres" /\ dbshell) =>
    \A i \in 1..Len(returned) : \E j \in 1..Len(collection) : collection[j] = returned[i]

\* C10: the feature built from a row (osm_id, centroid, tags) has
\* properties.id equal to the row's osm_id and the Point of its centroid.
C10_IdIsOsmId ==
  pc \in {"local", "clean", "write", "done"} =>
    /\ Len(result) = Len(rows)
    /\ \A i \in 1..Len(result) :
         /\ result[i].properties["id"].kind = "int"
         /\ result[i].properties["id"].val = rows[i][1].val
         /\ \E k \in 1..Len(DbRows) :
              DbRows[k].osm_id = rows[i][1].val /\ DbRows[k].geom = result[i].geometry

\* C8 as stated: the poly filter of the Overpass query holds, for each vertex
\* of the exterior ring in ring order, its longitude then its latitude,
\* separated by single spaces with no trailing separator.
C8_LonLatOrder ==
  pc \in {"overpass", "clean", "write", "done"} =>
    opQuery = kOverpassHead \o JoinVertices(poly, 1, 2) \o kOverpassTail

\* C8 amended: the poly filter holds, for each vertex of the exterior ring in
\* ring order, its latitude then its longitude, separated by single spaces
\* with no trailing separator.
C8_LatLonOrder ==
  pc \in {"overpass", "clean", "write", "done"} =>
    opQuery = kOverpassHead \o JoinVertices(poly, 2, 1) \o kOverpassTail

\* the query has been built for a closed ring of three distinct vertices
C8_Witness ==
  /\ pc = "overpass"
  /\ client = "overpass"
  /\ Len(poly) = 4
  /\ poly[1] # poly[2]
  /\ Find(opQuery, FloatStr(poly[1][2]) \o <<" ">> \o FloatStr(poly[1][1])) > 0

====
